---- MODULE Spec2Model ----
(***************************************************************************)
(* The persistent AST history engine of Sapling: the DAG of immutable      *)
(* nodes (src/src/editable_tree/dag.rs).                                    *)
(*                                                                         *)
(* A node reference (&'arena Node) is the 1-based position of the node in  *)
(* the arena; two references are identical iff they are the same number.   *)
(* Child indices of a cursor path are 0-based as in the source, so the     *)
(* i-th child of a node n is n.children[i + 1].                            *)
(***************************************************************************)
EXTENDS Integers, Sequences, FiniteSets, TLC

VARIABLES
    arena,                \* Arena<Node>: every node ever allocated
    root_history,         \* DAG::root_history: Vec<(&Node, CursorPath)>
    history_index,        \* DAG::history_index (0-based)
    current_cursor_path,  \* DAG::current_cursor_path
    aborted,              \* TRUE once a call has panicked
    ret,                  \* the last call and the value it returned
    pre_edit,             \* history: root()/cursor path before the last edit, calls since
    run,                  \* history: roots of the current run of edits
    run_pos,              \* history: position in run that undo/redo should be at
    run_phase,            \* history: "edit", "undo" or "redo"
    discarded_roots,      \* history: roots of the entries replace_cursor discarded
    pre_undo,             \* history: the DAG as it was before the last call, an undo
    session,              \* Editor::run: "new", "mainloop" or "closed"
    command,              \* Editor::command: the characters typed so far
    log,                  \* Editor::log: Vec<(LogLevel, String)>
    event                 \* history: the last event of the main loop and its action

vars == <<arena, root_history, history_index, current_cursor_path, aborted,
          ret, pre_edit, run, run_pos, run_phase, discarded_roots, pre_undo,
          session, command, log, event>>

history_vars == <<pre_edit, run, run_pos, run_phase, discarded_roots, pre_undo>>

tree_vars == <<arena, root_history, history_index, current_cursor_path, aborted,
               ret, pre_edit, run, run_pos, run_phase, discarded_roots, pre_undo>>

editor_vars == <<session, command, log, event>>

dag_vars == <<arena, root_history, history_index, current_cursor_path, aborted>>

(***************************************************************************)
(* Bounds                                                                  *)
(***************************************************************************)
\* replace_cursor is not called once it would grow the arena past this size
MaxArena == 7
\* a replacement node is a leaf or has one child, a node already in the arena
\* whose reference is at most this
MaxChildRef == 1
\* the main loop takes no event once the log holds this many entries
MaxLog == 3
\* parse_command is applied to the command strings of at most this length
MaxCommandLen == 3

(***************************************************************************)
(* Nodes, arena and cursor paths                                           *)
(***************************************************************************)
Directions == {"Down", "Up", "Prev", "Next"}

Node(kind, children) == [kind |-> kind, children |-> children]

\* stands for "no node value" where a call has no Node argument
no_node == Node("-", <<>>)

\* Ast::children
children(ar, n) == ar[n].children

\* Arena::alloc: the value is stored at the end and its reference returned
alloc_arena(ar, value) == Append(ar, value)
alloc_ref(ar, value) == Len(ar) + 1

\* CursorPath::root
CursorPath_root == <<>>

\* CursorPath::is_root
is_root(path) == path = <<>>

\* CursorPath::push
push(path, index) == Append(path, index)

\* CursorPath::pop
pop(path) == SubSeq(path, 1, Len(path) - 1)

\* CursorPath::last_mut, read and written
last(path) == path[Len(path)]
set_last(path, index) == [path EXCEPT ![Len(path)] = index]

\* Does following `path` from `start` index an existing child at each step?
RECURSIVE path_valid(_, _, _)
path_valid(ar, path, start) ==
    IF path = <<>> THEN TRUE
    ELSE /\ Head(path) + 1 \in 1..Len(children(ar, start))
         /\ path_valid(ar, Tail(path), children(ar, start)[Head(path) + 1])

\* CursorPath::node_iter: the root, each intermediate node, the cursor node
RECURSIVE node_iter(_, _, _)
node_iter(ar, path, start) ==
    IF path = <<>> THEN <<start>>
    ELSE <<start>> \o node_iter(ar, Tail(path), children(ar, start)[Head(path) + 1])

\* CursorPath::cursor
path_cursor(ar, path, start) ==
    LET it == node_iter(ar, path, start) IN it[Len(it)]

\* CursorPath::cursor_and_parent; parent 0 stands for None
path_cursor_and_parent(ar, path, start) ==
    LET it == node_iter(ar, path, start) IN
    <<it[Len(it)], IF Len(it) >= 2 THEN it[Len(it) - 1] ELSE 0>>

\* every cursor path that is valid from `start`
RECURSIVE positions(_, _)
positions(ar, start) ==
    {<<>>} \cup
    UNION { {<<j - 1>> \o q : q \in positions(ar, children(ar, start)[j])} :
            j \in 1..Len(children(ar, start)) }

\* p is q or an ancestor position of q
is_prefix(p, q) == Len(p) <= Len(q) /\ SubSeq(q, 1, Len(p)) = p

(***************************************************************************)
(* DAG: read-only methods                                                  *)
(***************************************************************************)
\* DAG::root
root == root_history[history_index + 1][1]

\* DAG::cursor
cursor == path_cursor(arena, current_cursor_path, root)

\* DAG::cursor_and_parent
cursor_and_parent == path_cursor_and_parent(arena, current_cursor_path, root)

\* the root()/cursor()/node_iter indexing panics when this is false
can_index ==
    /\ history_index + 1 \in 1..Len(root_history)
    /\ path_valid(arena, current_cursor_path, root)

\* root() as a caller observes it; 0 when the indexing would panic
obs_root ==
    IF history_index + 1 \in 1..Len(root_history) THEN root ELSE 0

\* stands for "the last call was not a successful undo (or the redo after it)"
no_snapshot ==
    [valid |-> FALSE, root_history |-> <<>>, history_index |-> 0, root |-> 0,
     path |-> <<>>]

(***************************************************************************)
(* DAG::new                                                                *)
(***************************************************************************)
\* The tree the session starts from:  R[ A[ C ], B ]
InitArena ==
    << Node("C", <<>>), Node("A", <<1>>), Node("B", <<>>), Node("R", <<2, 3>>) >>

new(ar, initial_root) ==
    /\ arena = ar
    /\ root_history = << <<initial_root, CursorPath_root>> >>
    /\ history_index = 0
    /\ current_cursor_path = CursorPath_root

Init ==
    /\ \E initial_root \in 1..Len(InitArena) : new(InitArena, initial_root)
    /\ aborted = FALSE
    /\ ret = [op |-> "new", result |-> "unit", dir |-> "-", node |-> no_node]
    /\ pre_edit = [root |-> 0, path |-> <<>>, stored |-> <<>>, discarded |-> 0,
                   calls |-> 2]
    /\ run = <<obs_root>>
    /\ run_pos = 1
    /\ run_phase = "edit"
    /\ discarded_roots = {}
    /\ pre_undo = no_snapshot
    /\ session = "new"
    /\ command = <<>>
    /\ log = <<>>
    /\ event = [key |-> "-", action |-> [tag |-> "-", arg |-> "-"], calls |-> 0]

\* the value a call returns, with the call's argument
returned(op, result) ==
    [op |-> op, result |-> result, dir |-> "-", node |-> no_node]

returned_move(direction, result) ==
    [op |-> "move_cursor", result |-> result, dir |-> direction, node |-> no_node]

returned_replace(new_node, result) ==
    [op |-> "replace_cursor", result |-> result, dir |-> "-", node |-> new_node]

(***************************************************************************)
(* DAG::undo / DAG::redo                                                   *)
(***************************************************************************)
\* off by one: the first edit cannot be undone
undo_guard_strict(hi) == hi > 1

\* `if self.history_index > 0`
undo_guard(hi) == hi > 0

\* undo goes back to the first entry
undo_index_first(hi) == 0

\* `self.history_index -= 1`
undo_index(hi) == hi - 1

\* the path is read before the decrement takes effect
undo_path_stale(rh, hi) == rh[hi + 2][2]

\* the path cloned into current_cursor_path; hi is the decremented index
undo_path(rh, hi) == rh[hi + 1][2]

\* undo implemented by popping the entry it leaves
undo_popping ==
    /\ ~aborted
    /\ IF undo_guard(history_index)
       THEN /\ history_index' = undo_index(history_index)
            /\ root_history' = SubSeq(root_history, 1, history_index)
            /\ current_cursor_path' = undo_path(root_history, history_index')
            /\ ret' = returned("undo", "true")
       ELSE /\ UNCHANGED <<history_index, current_cursor_path, root_history>>
            /\ ret' = returned("undo", "false")
    /\ UNCHANGED <<arena, aborted>>

undo ==
    /\ ~aborted
    /\ IF undo_guard(history_index)
       THEN /\ history_index' = undo_index(history_index)
            /\ IF history_index' + 1 \in 1..Len(root_history)
               THEN /\ current_cursor_path' = undo_path(root_history, history_index')
                    /\ ret' = returned("undo", "true")
                    /\ UNCHANGED aborted
               ELSE /\ aborted' = TRUE
                    /\ ret' = returned("undo", "panic")
                    /\ UNCHANGED current_cursor_path
       ELSE /\ UNCHANGED <<history_index, current_cursor_path, aborted>>
            /\ ret' = returned("undo", "false")
    /\ UNCHANGED <<arena, root_history>>

\* off by one: the last index is taken to have a successor
redo_guard_inclusive(rh, hi) == hi < Len(rh)

\* `if self.history_index < self.root_history.len() - 1`
redo_guard(rh, hi) == hi < Len(rh) - 1

\* `self.history_index += 1`
redo_index(hi) == hi + 1

\* the path is read before the increment takes effect
redo_path_stale(rh, hi) == rh[hi][2]

\* the path cloned into current_cursor_path; hi is the incremented index
redo_path(rh, hi) == rh[hi + 1][2]

redo ==
    /\ ~aborted
    /\ IF redo_guard(root_history, history_index)
       THEN /\ history_index' = redo_index(history_index)
            /\ IF history_index' + 1 \in 1..Len(root_history)
               THEN /\ current_cursor_path' = redo_path(root_history, history_index')
                    /\ ret' = returned("redo", "true")
                    /\ UNCHANGED aborted
               ELSE /\ aborted' = TRUE
                    /\ ret' = returned("redo", "panic")
                    /\ UNCHANGED current_cursor_path
       ELSE /\ UNCHANGED <<history_index, current_cursor_path, aborted>>
            /\ ret' = returned("redo", "false")
    /\ UNCHANGED <<arena, root_history>>

(***************************************************************************)
(* DAG::move_cursor                                                        *)
(***************************************************************************)
\* Up jumps to the root instead of the parent
up_path_root(path) == CursorPath_root

\* `self.current_cursor_path.pop()`
up_path(path) == pop(path)

\* off by one: the index may reach the parent's child count
next_in_range_inclusive(last_index, len) == last_index + 1 <= len

\* `*last_index + 1 < cursor_parent.unwrap().children().len()`
next_in_range(last_index, len) == last_index + 1 < len

\* <<new cursor path, returned Option<String>>>
move_result(direction) ==
    LET current_cursor == cursor_and_parent[1]
        cursor_parent  == cursor_and_parent[2]
        path           == current_cursor_path
    IN  CASE direction = "Down" ->
                IF children(arena, current_cursor) = <<>>
                THEN <<path, "Cannot move down the tree if the cursor has no children.">>
                ELSE <<push(path, 0), "None">>
          [] direction = "Up" ->
                IF is_root(path)
                THEN <<path, "Cannot move to the parent of the root.">>
                ELSE <<up_path(path), "None">>
          [] direction = "Prev" ->
                IF ~is_root(path)
                THEN IF last(path) = 0
                     THEN <<path, "Cannot move before the first child of a node.">>
                     ELSE <<set_last(path, last(path) - 1), "None">>
                ELSE <<path, "Cannot move to a sibling of the root.">>
          [] direction = "Next" ->
                IF ~is_root(path)
                THEN IF next_in_range(last(path), Len(children(arena, cursor_parent)))
                     THEN <<set_last(path, last(path) + 1), "None">>
                     ELSE <<path, "Cannot move past the last sibling of a node.">>
                ELSE <<path, "Cannot move to a sibling of the root.">>

move_cursor(direction) ==
    /\ ~aborted
    /\ IF can_index
       THEN /\ current_cursor_path' = move_result(direction)[1]
            /\ ret' = returned_move(direction, move_result(direction)[2])
            /\ UNCHANGED aborted
       ELSE /\ aborted' = TRUE
            /\ ret' = returned_move(direction, "panic")
            /\ UNCHANGED current_cursor_path
    /\ UNCHANGED <<arena, root_history, history_index>>

(***************************************************************************)
(* DAG::replace_cursor                                                     *)
(***************************************************************************)
\* the loop left out: the redo-able future is kept
truncate_none(rh, hi) == rh

\* off by one in the loop condition: one redo-able entry survives
truncate_keep_one(rh, hi) ==
    SubSeq(rh, 1, IF hi + 2 <= Len(rh) THEN hi + 2 ELSE hi + 1)

\* the `while ... pop()` loop: entries after the current one are removed
truncate(rh, hi) == SubSeq(rh, 1, hi + 1)

\* the first child slot is overwritten whatever the path index
clone_with_first(n, child_index, node) ==
    [n EXCEPT !.children[1] = node]

\* the clone is allocated without its child slot being relinked
clone_with_stale(n, child_index, node) == n

\* one iteration of the cloning loop: clone n, point its child slot at node
clone_with(n, child_index, node) ==
    [n EXCEPT !.children[child_index + 1] = node]

\* the loop stops one ancestor early: the old root is never cloned
RECURSIVE clone_path_short(_, _, _, _, _)
clone_path_short(ar, nodes_to_clone, path, i, node) ==
    IF i <= 1 THEN <<ar, node>>
    ELSE LET cloned_node == clone_with(ar[nodes_to_clone[i]], path[i], node)
         IN  clone_path_short(alloc_arena(ar, cloned_node), nodes_to_clone, path,
                              i - 1, alloc_ref(ar, cloned_node))

\* the ancestors are overwritten in place instead of being cloned
RECURSIVE clone_path_inplace(_, _, _, _, _)
clone_path_inplace(ar, nodes_to_clone, path, i, node) ==
    IF i = 0 THEN <<ar, node>>
    ELSE LET cloned_node == clone_with(ar[nodes_to_clone[i]], path[i], node)
         IN  clone_path_inplace([ar EXCEPT ![nodes_to_clone[i]] = cloned_node],
                                nodes_to_clone, path, i - 1, nodes_to_clone[i])

\* The cloning loop, from the cursor's parent (i = Len(path)) up to the root
\* (i = 1).  `node` is the most recently allocated reference.  The result is
\* <<arena after the loop, reference of the new root>>.
RECURSIVE clone_path(_, _, _, _, _)
clone_path(ar, nodes_to_clone, path, i, node) ==
    IF i = 0 THEN <<ar, node>>
    ELSE LET cloned_node == clone_with(ar[nodes_to_clone[i]], path[i], node)
         IN  clone_path(alloc_arena(ar, cloned_node), nodes_to_clone, path,
                        i - 1, alloc_ref(ar, cloned_node))

\* the assignment left out: history_index keeps its value
replace_index_stale(rh, hi) == hi

\* `self.history_index = self.root_history.len() - 1`; hi is the index before
replace_index(rh, hi) == Len(rh) - 1

\* the entry is pushed with the root cursor path, as DAG::new does
replace_entry_root(node, path) == <<node, CursorPath_root>>

\* the entry pushed onto root_history
replace_entry(node, path) == <<node, path>>

replace_cursor(new_node) ==
    /\ ~aborted
    /\ IF can_index
       THEN LET truncated == truncate(root_history, history_index)
                iter      == node_iter(arena, current_cursor_path, root)
                nodes_to_clone == SubSeq(iter, 1, Len(iter) - 1)
                result    == clone_path(alloc_arena(arena, new_node), nodes_to_clone,
                                        current_cursor_path, Len(nodes_to_clone),
                                        alloc_ref(arena, new_node))
            IN  /\ arena' = result[1]
                /\ root_history' =
                       Append(truncated, replace_entry(result[2], current_cursor_path))
                /\ history_index' = replace_index(root_history', history_index)
                /\ UNCHANGED <<current_cursor_path, aborted>>
                /\ ret' = returned_replace(new_node, "unit")
       ELSE /\ aborted' = TRUE
            /\ ret' = returned_replace(new_node, "panic")
            /\ UNCHANGED <<arena, root_history, history_index, current_cursor_path>>

\* The node values a caller passes to replace_cursor: a leaf, or a node whose
\* one child is a reference to a node already in the arena.
new_nodes(ar) ==
    {Node("N", <<>>)} \cup {Node("N", <<c>>) : c \in 1..MaxChildRef \cap 1..Len(ar)}

(***************************************************************************)
(* History variables for the undo/redo scenarios                           *)
(***************************************************************************)
\* one more call, not an edit, made since the last edit (counted up to 2)
track_call ==
    /\ pre_edit' = [pre_edit EXCEPT !.calls = IF @ < 2 THEN @ + 1 ELSE 2]
    /\ UNCHANGED discarded_roots

\* `run` is <<r0, r1, .., rk>>: r0 is root() before the first edit of the
\* current run of edits and ri is root() after its i-th edit.  In phase
\* "undo"/"redo", run_pos is the entry of run that the undos and redos made
\* since the k-th edit should have brought root() to.
track_restart ==
    /\ run' = <<obs_root'>>
    /\ run_pos' = 1
    /\ run_phase' = "edit"

track_edit ==
    /\ pre_edit' = [root |-> obs_root, path |-> current_cursor_path,
                    stored |-> root_history[history_index + 1][2],
                    discarded |-> Len(root_history) - 1 - history_index,
                    calls |-> 0]
    /\ IF run_phase = "edit"
       THEN run' = Append(run, obs_root')
       ELSE run' = <<obs_root, obs_root'>>
    /\ run_pos' = Len(run')
    /\ run_phase' = "edit"
    /\ discarded_roots' = discarded_roots \cup
           {root_history[i][1] : i \in (history_index + 2)..Len(root_history)}
    /\ pre_undo' = no_snapshot

track_move ==
    /\ track_call
    /\ pre_undo' = no_snapshot
    /\ UNCHANGED <<run, run_pos, run_phase>>

\* an undo after the edits of the run, or after earlier undos of them
track_undo ==
    /\ track_call
    /\ pre_undo' = IF ret'.result = "true"
                   THEN [valid |-> TRUE, root_history |-> root_history,
                         history_index |-> history_index, root |-> obs_root,
                         path |-> current_cursor_path]
                   ELSE no_snapshot
    /\ IF run_phase \in {"edit", "undo"} /\ run_pos > 1
       THEN /\ run_pos' = run_pos - 1
            /\ run_phase' = "undo"
            /\ UNCHANGED run
       ELSE track_restart

\* a redo after u undos: from the first redo on, the run is the u edits that
\* were undone, so that run[1] is the root before those edits
track_redo ==
    /\ track_call
    /\ pre_undo' = IF ret.op = "undo" THEN pre_undo ELSE no_snapshot
    /\ IF run_phase = "undo"
       THEN /\ run' = SubSeq(run, run_pos, Len(run))
            /\ run_pos' = 2
            /\ run_phase' = "redo"
       ELSE IF run_phase = "redo" /\ run_pos < Len(run)
       THEN /\ run_pos' = run_pos + 1
            /\ run_phase' = "redo"
            /\ UNCHANGED run
       ELSE track_restart

(***************************************************************************)
(* Specification: any sequence of calls on a DAG                           *)
(***************************************************************************)
call_undo == undo /\ track_undo

call_redo == redo /\ track_redo

call_move_cursor(direction) == move_cursor(direction) /\ track_move

call_replace_cursor(new_node) == replace_cursor(new_node) /\ track_edit

Undo == call_undo /\ UNCHANGED editor_vars

Redo == call_redo /\ UNCHANGED editor_vars

MoveCursor ==
    /\ \E direction \in Directions : call_move_cursor(direction)
    /\ UNCHANGED editor_vars

ReplaceCursor ==
    /\ Len(arena) + Len(current_cursor_path) + 1 <= MaxArena
    /\ \E new_node \in new_nodes(arena) : call_replace_cursor(new_node)
    /\ UNCHANGED editor_vars

Next == Undo \/ Redo \/ MoveCursor \/ ReplaceCursor

Spec == Init /\ [][Next]_vars

(***************************************************************************)
(* The editor session (src/src/editor.rs)                                  *)
(***************************************************************************)
\* the keys a user types: those of the default keymap, a character that is a
\* valid replace/insert argument and a character that is neither
Chars == {"q", "i", "r", "c", "p", "k", "j", "u", "R", "a", "x"}

Command(cmd, dir) == [cmd |-> cmd, dir |-> dir]

\* default_keymap
default_keymap ==
    [ch \in {"q", "i", "r", "c", "p", "k", "j", "u", "R"} |->
        CASE ch = "q" -> Command("Quit", "-")
          [] ch = "i" -> Command("InsertChild", "-")
          [] ch = "r" -> Command("Replace", "-")
          [] ch = "c" -> Command("MoveCursor", "Down")
          [] ch = "p" -> Command("MoveCursor", "Up")
          [] ch = "k" -> Command("MoveCursor", "Prev")
          [] ch = "j" -> Command("MoveCursor", "Next")
          [] ch = "u" -> Command("Undo", "-")
          [] ch = "R" -> Command("Redo", "-")]

\* Option<Action>: tag "None" is the incomplete command; arg is the character
\* of Replace / InsertChild or the direction of MoveCursor
Action(tag, arg) == [tag |-> tag, arg |-> arg]

\* the argument of Replace / InsertChild is the last character typed
arg_char_last(command_str) == command_str[Len(command_str)]

\* the second `command_char_iter.next()`
arg_char(command_str) == command_str[2]

\* a key mapped to Quit quits even as the argument of InsertChild / Replace
parse_command_quit_argument(keymap, command_str) ==
    IF Len(command_str) >= 1
    THEN LET c == command_str[1] IN
         IF c \in DOMAIN keymap
         THEN CASE keymap[c].cmd = "Quit" -> Action("Quit", "-")
                [] keymap[c].cmd \in {"InsertChild", "Replace"} ->
                       IF Len(command_str) >= 2
                       THEN IF /\ command_str[2] \in DOMAIN keymap
                               /\ keymap[command_str[2]].cmd = "Quit"
                            THEN Action("Quit", "-")
                            ELSE Action(keymap[c].cmd, arg_char(command_str))
                       ELSE Action("None", "-")
                [] keymap[c].cmd = "MoveCursor" -> Action("MoveCursor", keymap[c].dir)
                [] keymap[c].cmd = "Undo" -> Action("Undo", "-")
                [] keymap[c].cmd = "Redo" -> Action("Redo", "-")
         ELSE Action("Undefined", "-")
    ELSE Action("None", "-")

\* parse_command
parse_command(keymap, command_str) ==
    IF Len(command_str) >= 1
    THEN LET c == command_str[1] IN
         IF c \in DOMAIN keymap
         THEN CASE keymap[c].cmd = "Quit" -> Action("Quit", "-")
                [] keymap[c].cmd = "InsertChild" ->
                       IF Len(command_str) >= 2
                       THEN Action("InsertChild", arg_char(command_str))
                       ELSE Action("None", "-")
                [] keymap[c].cmd = "Replace" ->
                       IF Len(command_str) >= 2
                       THEN Action("Replace", arg_char(command_str))
                       ELSE Action("None", "-")
                [] keymap[c].cmd = "MoveCursor" -> Action("MoveCursor", keymap[c].dir)
                [] keymap[c].cmd = "Undo" -> Action("Undo", "-")
                [] keymap[c].cmd = "Redo" -> Action("Redo", "-")
         ELSE Action("Undefined", "-")
    ELSE Action("None", "-")

\* Ast::is_replace_char / Ast::from_char / Ast::is_insert_char of a node
ReplaceChars == {"a"}
InsertChars == {"a"}
is_replace_char(n, c) == c \in ReplaceChars
from_char(n, c) == Node(c, <<>>)
is_insert_char(n, c) == c \in InsertChars

\* a log entry: (LogLevel, message); the message is its fixed text and the
\* characters formatted into it
LogEntry(level, text, chars) == [level |-> level, text |-> text, chars |-> chars]

\* Editor::log
push_log(level, text, chars) == log' = Append(log, LogEntry(level, text, chars))

\* what the last turn of the main loop did
Handled(key, parsed, calls) == [key |-> key, action |-> parsed, calls |-> calls]

no_action == Action("-", "-")

\* a panic outside the DAG's own methods (tree.cursor() on an invalid path)
editor_panic ==
    /\ aborted' = TRUE
    /\ UNCHANGED <<arena, root_history, history_index, current_cursor_path, ret>>
    /\ UNCHANGED history_vars
    /\ UNCHANGED log

\* the replacement is made whatever the character
editor_replace_guard_none(c) == TRUE

\* `if self.tree.cursor().is_replace_char(c)`
editor_replace_guard(c) == is_replace_char(arena[cursor], c)

\* Editor::replace_cursor
Editor_replace_cursor(c) ==
    IF ~can_index THEN editor_panic
    ELSE IF editor_replace_guard(c)
    THEN /\ Len(arena) + Len(current_cursor_path) + 1 <= MaxArena
         /\ call_replace_cursor(from_char(arena[cursor], c))
         /\ push_log("Debug", "Replacing with", <<c>>)
    ELSE /\ push_log("Warning", "Cannot replace node with", <<c>>)
         /\ UNCHANGED tree_vars

\* Editor::move_cursor
Editor_move_cursor(direction) ==
    /\ call_move_cursor(direction)
    /\ IF ret'.result = "panic" \/ ret'.result = "None" THEN UNCHANGED log
       ELSE push_log("Warning", ret'.result, <<>>)

\* DAG::insert_child: unimplemented!()
insert_child(new_node) ==
    /\ ~aborted
    /\ aborted' = TRUE
    /\ ret' = [op |-> "insert_child", result |-> "panic", dir |-> "-", node |-> new_node]
    /\ UNCHANGED <<arena, root_history, history_index, current_cursor_path>>

\* the insertion is handed to the tree when the character is valid
Editor_insert_child_calling(c) ==
    IF ~can_index THEN editor_panic
    ELSE IF is_insert_char(arena[cursor], c)
    THEN /\ insert_child(from_char(arena[cursor], c))
         /\ UNCHANGED history_vars
         /\ UNCHANGED log
    ELSE /\ push_log("Warning", "Cannot replace node with", <<c>>)
         /\ UNCHANGED tree_vars

\* Editor::insert_child
Editor_insert_child(c) ==
    IF ~can_index THEN editor_panic
    ELSE /\ IF is_insert_char(arena[cursor], c)
            THEN push_log("Debug", "Inserting with", <<c>>)
            ELSE push_log("Warning", "Cannot replace node with", <<c>>)
         /\ UNCHANGED tree_vars

\* Editor::undo
Editor_undo ==
    /\ call_undo
    /\ CASE ret'.result = "true" -> push_log("Debug", "Undo successful", <<>>)
         [] ret'.result = "false" -> push_log("Info", "No changes to undo", <<>>)
         [] OTHER -> UNCHANGED log

\* Editor::redo
Editor_redo ==
    /\ call_redo
    /\ CASE ret'.result = "true" -> push_log("Debug", "Redo successful", <<>>)
         [] ret'.result = "false" -> push_log("Info", "No changes to redo", <<>>)
         [] OTHER -> UNCHANGED log

\* Editor::run up to the main loop
Run ==
    /\ session = "new"
    /\ session' = "mainloop"
    /\ push_log("Info", "Starting Up...", <<>>)
    /\ UNCHANGED <<command, event>>
    /\ UNCHANGED tree_vars

\* the end of Editor::run, once the main loop is left
close_session ==
    /\ session' = "closed"
    /\ push_log("Info", "Closing...", <<>>)
    /\ UNCHANGED tree_vars

\* a turn of the main loop is taken while the session runs, no call has
\* panicked and the log has room
turn_enabled ==
    /\ session = "mainloop"
    /\ ~aborted
    /\ Len(log) < MaxLog

\* Editor::mainloop, Key::Char(c)
KeyChar ==
    \E c \in Chars :
        LET typed  == Append(command, c)
            parsed == parse_command(default_keymap, typed)
        IN  /\ turn_enabled
            /\ CASE parsed.tag = "None" ->
                       /\ command' = typed
                       /\ event' = Handled(c, parsed, 0)
                       /\ UNCHANGED <<session, log>>
                       /\ UNCHANGED tree_vars
                 [] parsed.tag = "Undefined" ->
                       /\ push_log("Warning", "not a command.", typed)
                       /\ command' = <<>>
                       /\ event' = Handled(c, parsed, 0)
                       /\ UNCHANGED session
                       /\ UNCHANGED tree_vars
                 [] parsed.tag = "Quit" ->
                       /\ close_session
                       /\ command' = typed
                       /\ event' = Handled(c, parsed, 0)
                 [] parsed.tag = "MoveCursor" ->
                       /\ Editor_move_cursor(parsed.arg)
                       /\ command' = <<>>
                       /\ event' = Handled(c, parsed, 1)
                       /\ UNCHANGED session
                 [] parsed.tag = "Replace" ->
                       /\ Editor_replace_cursor(parsed.arg)
                       /\ command' = <<>>
                       /\ event' = Handled(c, parsed,
                                           IF can_index /\ editor_replace_guard(parsed.arg)
                                           THEN 1 ELSE 0)
                       /\ UNCHANGED session
                 [] parsed.tag = "InsertChild" ->
                       /\ Editor_insert_child(parsed.arg)
                       /\ command' = <<>>
                       /\ event' = Handled(c, parsed,
                                           IF ret'.op = "insert_child" THEN 1 ELSE 0)
                       /\ UNCHANGED session
                 [] parsed.tag = "Undo" ->
                       /\ Editor_undo
                       /\ command' = <<>>
                       /\ event' = Handled(c, parsed, 1)
                       /\ UNCHANGED session
                 [] parsed.tag = "Redo" ->
                       /\ Editor_redo
                       /\ command' = <<>>
                       /\ event' = Handled(c, parsed, 1)
                       /\ UNCHANGED session

\* ESC leaves the characters typed so far in the command
KeyEsc_keep ==
    /\ turn_enabled
    /\ event' = Handled("ESC", no_action, 0)
    /\ UNCHANGED <<session, log, command>>
    /\ UNCHANGED tree_vars

\* Editor::mainloop, Key::ESC
KeyEsc ==
    /\ turn_enabled
    /\ command' = <<>>
    /\ event' = Handled("ESC", no_action, 0)
    /\ UNCHANGED <<session, log>>
    /\ UNCHANGED tree_vars

\* Editor::mainloop, any other key or event
OtherEvent ==
    /\ turn_enabled
    /\ event' = Handled("other", no_action, 0)
    /\ UNCHANGED <<session, log, command>>
    /\ UNCHANGED tree_vars

\* Editor::mainloop, poll_event() returns Err: the loop ends
PollError ==
    /\ turn_enabled
    /\ close_session
    /\ event' = Handled("error", no_action, 0)
    /\ UNCHANGED command

NextEditor == Run \/ KeyChar \/ KeyEsc \/ OtherEvent \/ PollError

SpecEditor == Init /\ [][NextEditor]_vars

(***************************************************************************)
(* parse_command applied to any command string                             *)
(***************************************************************************)
RECURSIVE strings(_)
strings(n) ==
    IF n = 0 THEN {<<>>}
    ELSE strings(n - 1) \cup
         {Append(s, c) : s \in {t \in strings(n - 1) : Len(t) = n - 1}, c \in Chars}

ParseCommand ==
    \E command_str \in strings(MaxCommandLen) :
        /\ event.key = "-"
        /\ command' = command_str
        /\ event' = Handled("parse", parse_command(default_keymap, command_str), 0)
        /\ UNCHANGED <<session, log>>
        /\ UNCHANGED tree_vars

SpecParse == Init /\ [][ParseCommand]_vars

(***************************************************************************)
(* Properties                                                              *)
(***************************************************************************)

\* C1: in every reachable state root_history has length at least 1 and
\* 0 <= history_index < root_history.length.
Thm_C1 ==
    /\ Len(root_history) >= 1
    /\ 0 <= history_index
    /\ history_index < Len(root_history)

\* three entries, the last one current, and redo has just been refused
Wit_C1 ==
    /\ Len(root_history) >= 3
    /\ history_index = Len(root_history) - 1
    /\ ret.op = "redo"

\* C2: after k edits (cursor moves between them allowed), u <= k undos bring
\* root() to the root that was current before the last u of those edits, and
\* as many redos bring it back to the root produced by the k-th edit; every
\* redo in between lands on the root produced by the corresponding edit.
Thm_C2 ==
    run_phase \in {"undo", "redo"} => root = run[run_pos]

\* at least two edits were undone and all of them redone
Wit_C2 ==
    /\ run_phase = "redo"
    /\ Len(run) >= 3
    /\ run_pos = Len(run)
    /\ ret.op = "redo"

\* C3: immediately after replace_cursor history_index is the last index of
\* root_history, and a redo() called then returns false and changes nothing.
Thm_C3 ==
    [][ /\ ret'.op = "replace_cursor" => history_index' = Len(root_history') - 1
        /\ (ret.op = "replace_cursor" /\ ret'.op = "redo") =>
               /\ ret'.result = "false"
               /\ UNCHANGED dag_vars ]_vars

\* undo, then an edit that discarded the undone entry, then a refused redo
Wit_C3 ==
    /\ ret.op = "redo"
    /\ ret.result = "false"
    /\ pre_edit.calls = 1
    /\ pre_edit.discarded >= 1

\* a step that is a completed replace_cursor call
replace_step == ret'.op = "replace_cursor" /\ ret'.result = "unit"

\* C4 as stated: after replace_cursor at cursor path P, every node of the new
\* root's tree whose position is neither a prefix of P nor P itself is
\* reference-identical to the node at the same position in the prior root.
Cex_C4 ==
    [][ replace_step =>
          \A q \in positions(arena', root') :
              ~is_prefix(q, current_cursor_path) =>
                  /\ q \in positions(arena, root)
                  /\ path_cursor(arena', q, root') = path_cursor(arena, q, root) ]_vars

\* C4 amended: after replace_cursor at cursor path P, every node of the new
\* root's tree whose position is neither on the path to P (a prefix of P or P
\* itself) nor below P is reference-identical to the node at the same
\* position in the prior root; each ancestor on P keeps its child count and
\* all its child references except the slot given by the path index.
Thm_C4 ==
    [][ replace_step =>
          LET P == current_cursor_path IN
          /\ \A q \in positions(arena', root') :
                 (~is_prefix(q, P) /\ ~is_prefix(P, q)) =>
                     /\ q \in positions(arena, root)
                     /\ path_cursor(arena', q, root') = path_cursor(arena, q, root)
          /\ \A i \in 0..(Len(P) - 1) :
                 LET old == children(arena, path_cursor(arena, SubSeq(P, 1, i), root))
                     now == children(arena', path_cursor(arena', SubSeq(P, 1, i), root'))
                 IN  /\ Len(now) = Len(old)
                     /\ \A j \in 1..Len(old) : j # P[i + 1] + 1 => now[j] = old[j] ]_vars

\* a node that has a sibling was replaced by a node that has a child
Wit_C4 ==
    /\ ret.op = "replace_cursor"
    /\ ret.result = "unit"
    /\ current_cursor_path # <<>>
    /\ children(arena, cursor) # <<>>
    /\ Len(children(arena, cursor_and_parent[2])) >= 2

\* C5: one replace_cursor call allocates exactly Len(current_cursor_path) + 1
\* nodes; at the root path it allocates one node, which is the new root.
Thm_C5 ==
    [][ replace_step =>
          /\ Len(arena') = Len(arena) + Len(current_cursor_path) + 1
          /\ SubSeq(arena', 1, Len(arena)) = arena
          /\ current_cursor_path = <<>> => root' = Len(arena) + 1 ]_vars

\* an edit two levels down has allocated three nodes
Wit_C5 ==
    /\ ret.op = "replace_cursor"
    /\ ret.result = "unit"
    /\ Len(current_cursor_path) = 2
    /\ Len(arena) = Len(InitArena) + 3

\* C6 as stated: moving to P, replace_cursor, undo() leaves root() the
\* pre-edit root and the cursor path the pre-edit path P.
Cex_C6 ==
    [][ (ret.op = "replace_cursor" /\ ret'.op = "undo") =>
          /\ root' = pre_edit.root
          /\ current_cursor_path' = pre_edit.path ]_vars

\* C6 amended: moving to P, replace_cursor, undo() succeeds, leaves root() the
\* pre-edit root, and leaves the cursor path the one stored in the history
\* entry that was current before the edit (which need not be P).
Thm_C6 ==
    [][ (ret.op = "replace_cursor" /\ ret'.op = "undo") =>
          /\ ret'.result = "true"
          /\ root' = pre_edit.root
          /\ current_cursor_path' = pre_edit.stored ]_vars

\* the edit at a non-root path P has been undone and the cursor is not at P
Wit_C6 ==
    /\ ret.op = "undo"
    /\ ret.result = "true"
    /\ pre_edit.calls = 1
    /\ pre_edit.path # <<>>
    /\ current_cursor_path # pre_edit.path

\* C7: undo() with history_index > 0 decrements it, sets the cursor path to
\* the one stored in the now-current entry and returns true; with
\* history_index = 0 it returns false and changes nothing.
Thm_C7 ==
    [][ ret'.op = "undo" =>
          IF history_index > 0
          THEN /\ history_index' = history_index - 1
               /\ current_cursor_path' = root_history'[history_index' + 1][2]
               /\ ret'.result = "true"
          ELSE /\ ret'.result = "false"
               /\ UNCHANGED <<root_history, history_index, current_cursor_path>> ]_vars

\* a successful undo that restored a non-root cursor path
Wit_C7 ==
    /\ ret.op = "undo"
    /\ ret.result = "true"
    /\ current_cursor_path # <<>>
    /\ current_cursor_path = root_history[history_index + 1][2]

\* C8: redo() with history_index < root_history.length - 1 increments it, sets
\* the cursor path to the one stored in the new current entry and returns
\* true; otherwise it returns false and changes nothing.
Thm_C8 ==
    [][ ret'.op = "redo" =>
          IF history_index < Len(root_history) - 1
          THEN /\ history_index' = history_index + 1
               /\ current_cursor_path' = root_history'[history_index' + 1][2]
               /\ ret'.result = "true"
          ELSE /\ ret'.result = "false"
               /\ UNCHANGED <<root_history, history_index, current_cursor_path>> ]_vars

\* a successful redo that restored a non-root cursor path
Wit_C8 ==
    /\ ret.op = "redo"
    /\ ret.result = "true"
    /\ current_cursor_path # <<>>
    /\ current_cursor_path = root_history[history_index + 1][2]

\* C9: replace_cursor called with history_index = i leaves root_history with
\* length i + 2 and history_index = i + 1; entries 0..i and the cursor path
\* are unchanged; the appended entry is (a newly allocated root, the cursor
\* path); when i was the last index the length grows by exactly 1.
Thm_C9 ==
    [][ replace_step =>
          LET i == history_index IN
          /\ Len(root_history') = i + 2
          /\ history_index' = i + 1
          /\ SubSeq(root_history', 1, i + 1) = SubSeq(root_history, 1, i + 1)
          /\ root_history'[i + 2][1] \in (Len(arena) + 1)..Len(arena')
          /\ root_history'[i + 2][2] = current_cursor_path
          /\ current_cursor_path' = current_cursor_path
          /\ i = Len(root_history) - 1 => Len(root_history') = Len(root_history) + 1 ]_vars

\* an edit at a non-root path that discarded a redo-able entry
Wit_C9 ==
    /\ ret.op = "replace_cursor"
    /\ ret.result = "unit"
    /\ pre_edit.discarded >= 1
    /\ current_cursor_path # <<>>

\* C10: undo() and redo(), successful or not, leave every entry of
\* root_history (root and stored path) and the arena as they were.
Thm_C10 ==
    [][ ret'.op \in {"undo", "redo"} =>
          /\ root_history' = root_history
          /\ arena' = arena ]_vars

\* an undo that succeeded with a later entry still in the history
Wit_C10 ==
    /\ ret.op = "undo"
    /\ ret.result = "true"
    /\ run_phase = "undo"
    /\ Len(root_history) = history_index + 3

\* C11: move_cursor leaves root_history, history_index and the arena as they
\* were; when it returns a diagnostic the cursor path is unchanged, and when
\* it returns None the path changes by one step: Down appends index 0, Up
\* removes the last index, Prev / Next subtract / add 1 to the last index.
Thm_C11 ==
    [][ ret'.op = "move_cursor" =>
          LET p == current_cursor_path
              n == Len(current_cursor_path)
          IN  /\ root_history' = root_history
              /\ history_index' = history_index
              /\ arena' = arena
              /\ IF ret'.result # "None"
                 THEN current_cursor_path' = p
                 ELSE CASE ret'.dir = "Down" ->
                               current_cursor_path' = p \o <<0>>
                        [] ret'.dir = "Up" ->
                               n >= 1 /\ current_cursor_path' = SubSeq(p, 1, n - 1)
                        [] ret'.dir = "Prev" ->
                               n >= 1 /\ current_cursor_path' = SubSeq(p, 1, n - 1) \o <<p[n] - 1>>
                        [] ret'.dir = "Next" ->
                               n >= 1 /\ current_cursor_path' = SubSeq(p, 1, n - 1) \o <<p[n] + 1>> ]_vars

\* a Prev move that succeeded in a tree with an edit in its history
Wit_C11 ==
    /\ ret.op = "move_cursor"
    /\ ret.dir = "Prev"
    /\ ret.result = "None"
    /\ Len(root_history) >= 2

\* C12: move_cursor returns a diagnostic exactly when: Up and the path is
\* root; Down and the cursor node has no children; Prev and the path is root
\* or its last index is 0; Next and the path is root or last index + 1 >= the
\* parent's child count.  Otherwise it returns None.
Thm_C12 ==
    [][ ret'.op = "move_cursor" =>
          LET p == current_cursor_path
              n == Len(current_cursor_path)
              parent == path_cursor(arena, SubSeq(p, 1, n - 1), root)
              boundary ==
                  CASE ret'.dir = "Up" -> n = 0
                    [] ret'.dir = "Down" -> Len(children(arena, cursor)) = 0
                    [] ret'.dir = "Prev" -> n = 0 \/ p[n] = 0
                    [] ret'.dir = "Next" ->
                           n = 0 \/ p[n] + 1 >= Len(children(arena, parent))
          IN  (ret'.result # "None") <=> boundary ]_vars

\* Next was refused at the last of two siblings
Wit_C12 ==
    /\ ret.op = "move_cursor"
    /\ ret.dir = "Next"
    /\ ret.result = "Cannot move past the last sibling of a node."
    /\ current_cursor_path # <<>>
    /\ last(current_cursor_path) = 1

\* C13: in every reachable state no call has panicked, current_cursor_path is
\* a valid path in root(), and the cursor path stored in every history entry
\* is valid in that entry's root.
Thm_C13 ==
    /\ ~aborted
    /\ ret.result # "panic"
    /\ can_index
    /\ \A i \in 1..Len(root_history) :
           path_valid(arena, root_history[i][2], root_history[i][1])

\* undo has restored a non-root path that does not exist in the tree it left
Wit_C13 ==
    /\ ret.op = "undo"
    /\ ret.result = "true"
    /\ current_cursor_path # <<>>
    /\ current_cursor_path \notin positions(arena, root_history[history_index + 2][1])

\* C14: no operation changes a node that is already in the arena: every
\* reference keeps its node value (kind and child list), so the tree under
\* every root ever committed, current or discarded, stays as it was.
Thm_C14 ==
    [][ /\ Len(arena') >= Len(arena)
        /\ \A n \in 1..Len(arena) : arena'[n] = arena[n] ]_vars

\* an edit that discarded a redo-able entry: the new root and the root it
\* was made from share a node
Wit_C14 ==
    /\ ret.op = "replace_cursor"
    /\ ret.result = "unit"
    /\ pre_edit.discarded >= 1
    /\ Len(root_history) >= 2
    /\ LET nodes_of(r) == {path_cursor(arena, q, r) : q \in positions(arena, r)}
       IN  nodes_of(root) \cap nodes_of(root_history[Len(root_history) - 1][1]) # {}

\* C15: the root of an entry that replace_cursor has discarded is never
\* root() again, whatever calls follow.
Thm_C15 ==
    root \notin discarded_roots

\* an entry was discarded, and later an edit was undone and redone
Wit_C15 ==
    /\ discarded_roots # {}
    /\ ret.op = "redo"
    /\ ret.result = "true"

\* C18: immediately after replace_cursor(n) the cursor path is still valid,
\* cursor() is a reference allocated by the call and holds the value n,
\* root() is a reference allocated by the call, and every node on the path
\* from the new root to the cursor's parent is allocated by the call, is a
\* clone (same kind) of the old node at its position, and has its child slot
\* at the path index pointing at the next newly allocated node on the path.
Thm_C18 ==
    [][ replace_step =>
          LET P     == current_cursor_path
              fresh == (Len(arena) + 1)..Len(arena')
              old   == node_iter(arena, P, root)
              it    == node_iter(arena', P, root')
          IN  /\ path_valid(arena', P, root')
              /\ root' \in fresh
              /\ cursor' \in fresh
              /\ arena'[cursor'] = ret'.node
              /\ \A i \in 1..Len(P) :
                     /\ it[i] \in fresh
                     /\ it[i + 1] \in fresh
                     /\ arena'[it[i]].kind = arena[old[i]].kind
                     /\ children(arena', it[i])[P[i] + 1] = it[i + 1] ]_vars

\* a node below the root has been replaced by a node that has a child
Wit_C18 ==
    /\ ret.op = "replace_cursor"
    /\ ret.result = "unit"
    /\ ret.node.children # <<>>
    /\ Len(current_cursor_path) >= 1
    /\ cursor = Len(arena) - Len(current_cursor_path)

\* C19: a successful undo() followed at once by redo(): the redo succeeds,
\* root_history, history_index and root() are what they were before the undo,
\* and the cursor path is the path stored in the current history entry.
Thm_C19 ==
    [][ (ret.op = "undo" /\ ret.result = "true" /\ ret'.op = "redo") =>
          /\ ret'.result = "true"
          /\ root_history' = pre_undo.root_history
          /\ history_index' = pre_undo.history_index
          /\ root' = pre_undo.root
          /\ current_cursor_path' = root_history'[history_index' + 1][2] ]_vars

\* undo then redo has left the cursor at another path than it had before
Wit_C19 ==
    /\ ret.op = "redo"
    /\ ret.result = "true"
    /\ pre_undo.valid
    /\ current_cursor_path # pre_undo.path

\* C16: parse_command with the default keymap depends only on the first one or
\* two characters of its input: it returns None for the empty string and for a
\* lone 'r' or 'i'; Replace(c) / InsertChild(c) when the first character is
\* 'r' / 'i' and c is the second one; the mapped action when the first
\* character is mapped to Quit, MoveCursor, Undo or Redo, whatever follows it;
\* and Undefined when the first character is not in the keymap.
Thm_C16 ==
    event.key = "parse" =>
        LET s == command
            a == event.action
        IN  /\ a = parse_command(default_keymap,
                                 SubSeq(s, 1, IF Len(s) < 2 THEN Len(s) ELSE 2))
            /\ (s = <<>> \/ s = <<"r">> \/ s = <<"i">>) => a = Action("None", "-")
            /\ (Len(s) >= 2 /\ s[1] = "r") => a = Action("Replace", s[2])
            /\ (Len(s) >= 2 /\ s[1] = "i") => a = Action("InsertChild", s[2])
            /\ (Len(s) >= 1 /\ s[1] = "q") => a = Action("Quit", "-")
            /\ (Len(s) >= 1 /\ s[1] = "c") => a = Action("MoveCursor", "Down")
            /\ (Len(s) >= 1 /\ s[1] = "p") => a = Action("MoveCursor", "Up")
            /\ (Len(s) >= 1 /\ s[1] = "k") => a = Action("MoveCursor", "Prev")
            /\ (Len(s) >= 1 /\ s[1] = "j") => a = Action("MoveCursor", "Next")
            /\ (Len(s) >= 1 /\ s[1] = "u") => a = Action("Undo", "-")
            /\ (Len(s) >= 1 /\ s[1] = "R") => a = Action("Redo", "-")
            /\ (Len(s) >= 1 /\ s[1] \in {"a", "x"}) => a = Action("Undefined", "-")

Wit_C16 ==
    /\ event.key = "parse"
    /\ command = <<"r", "a", "q">>
    /\ event.action = Action("Replace", "a")

\* C17: the session's Replace(c) action calls the tree's replace_cursor only
\* when is_replace_char(c) of the cursor node is true; when it is false the
\* tree state (root_history, history_index, current_cursor_path, arena) is
\* unchanged, a warning is appended to the log and the session does not abort.
Thm_C17 ==
    [][ event'.action.tag = "Replace" =>
          LET c == event'.action.arg
              accepted == is_replace_char(arena[cursor], c)
              called == Len(arena') > Len(arena) \/ root_history' # root_history
          IN  /\ called => accepted
              /\ accepted =>
                    /\ called
                    /\ ret' = returned_replace(from_char(arena[cursor], c), "unit")
              /\ ~accepted =>
                    /\ UNCHANGED <<root_history, history_index,
                                   current_cursor_path, arena>>
                    /\ log' = Append(log, LogEntry("Warning",
                                                   "Cannot replace node with", <<c>>))
                    /\ ~aborted'
                    /\ session' = "mainloop" ]_vars

Wit_C17 ==
    /\ event.action = Action("Replace", "x")
    /\ Len(log) = 3
    /\ log[2] = LogEntry("Debug", "Replacing with", <<"a">>)
    /\ log[3] = LogEntry("Warning", "Cannot replace node with", <<"x">>)
    /\ Len(root_history) = 2
    /\ ~aborted

expects_argument(command_str) ==
    /\ Len(command_str) = 1
    /\ command_str[1] \in DOMAIN default_keymap
    /\ default_keymap[command_str[1]].cmd \in {"Replace", "InsertChild"}

\* C21 as stated: after each event of the main loop the command is empty or is
\* one character mapped to Replace or InsertChild; it is cleared after every
\* completed action and on ESC.
Cex_C21 ==
    [][ /\ command' = <<>> \/ expects_argument(command')
        /\ event'.key = "ESC" => command' = <<>>
        /\ event'.action.tag \notin {"-", "None"} => command' = <<>> ]_vars

\* C21 amended: after each event of the main loop the command holds at most
\* one character; it is empty, or one character mapped to Replace or
\* InsertChild, or, once a Quit action has ended the loop, the Quit key itself.
\* It is cleared after every completed action other than Quit (Undefined
\* included) and on ESC.
Thm_C21 ==
    [][ /\ Len(command') <= 1
        /\ \/ command' = <<>>
           \/ expects_argument(command')
           \/ /\ session' = "closed"
              /\ event'.action = Action("Quit", "-")
              /\ command' = <<"q">>
        /\ event'.key = "ESC" => command' = <<>>
        /\ event'.action.tag \notin {"-", "None", "Quit"} => command' = <<>> ]_vars

Wit_C21 ==
    /\ session = "closed"
    /\ event.action = Action("Quit", "-")
    /\ command = <<"q">>
    /\ Len(log) = 3
    /\ log[2] = LogEntry("Warning", "not a command.", <<"x">>)

\* C22: each event of the main loop is handled whole before the next is read,
\* and each completed action other than Quit applies at most one core operation
\* (one move_cursor, one replace_cursor, one undo or one redo); a Quit action
\* ends the loop without applying any operation to the tree, whereas the Quit
\* key typed while a Replace / InsertChild prefix is pending is taken as that
\* command's argument and does not quit.
Thm_C22 ==
    [][ LET tag == event'.action.tag
            tree_unchanged ==
                /\ UNCHANGED <<arena, root_history, history_index,
                               current_cursor_path, aborted, ret>>
                /\ event'.calls = 0
            dist(a, b) == IF a < b THEN b - a ELSE a - b
        IN  /\ event'.calls <= 1
            /\ tag \in {"-", "None", "Undefined", "InsertChild"} => tree_unchanged
            /\ tag = "MoveCursor" =>
                  /\ ret' = returned_move(event'.action.arg, ret'.result)
                  /\ dist(Len(current_cursor_path'), Len(current_cursor_path)) <= 1
                  /\ UNCHANGED <<arena, root_history, history_index>>
            /\ tag = "Undo" =>
                  /\ ret'.op = "undo"
                  /\ history_index' = history_index - (IF ret'.result = "true" THEN 1 ELSE 0)
                  /\ UNCHANGED <<arena, root_history>>
            /\ tag = "Redo" =>
                  /\ ret'.op = "redo"
                  /\ history_index' = history_index + (IF ret'.result = "true" THEN 1 ELSE 0)
                  /\ UNCHANGED <<arena, root_history>>
            /\ tag = "Replace" =>
                  \/ tree_unchanged
                  \/ /\ ret'.op = "replace_cursor"
                     /\ event'.calls = 1
                     /\ Len(arena') = Len(arena) + Len(current_cursor_path) + 1
                     /\ Len(root_history') = history_index + 2
                     /\ history_index' = history_index + 1
            /\ tag = "Quit" =>
                  /\ tree_unchanged
                  /\ session' = "closed"
            /\ (expects_argument(command) /\ event'.key = "q") =>
                  /\ event'.action = Action(default_keymap[command[1]].cmd, "q")
                  /\ session' = "mainloop"
                  /\ command' = <<>> ]_vars

Wit_C22 ==
    /\ event.key = "q"
    /\ event.action = Action("InsertChild", "q")
    /\ session = "mainloop"
    /\ command = <<>>
    /\ Len(log) = 3
    /\ log[2] = LogEntry("Debug", "Replacing with", <<"a">>)
    /\ log[3] = LogEntry("Warning", "Cannot replace node with", <<"q">>)
    /\ Len(root_history) = 2

====
